---- MODULE Spec2Model ----
(***************************************************************************)
(* A model of the goban board engine: src/pieces/goban.rs (the Goban       *)
(* struct and its operations) and src/pieces/zobrist.rs (the table of      *)
(* Zobrist keys).                                                          *)
(*                                                                         *)
(* Representation choices.                                                 *)
(*  - A Coord (usize, usize) is a tuple <<row, column>>; coord.0 is        *)
(*    coord[1] and coord.1 is coord[2].                                    *)
(*  - A Vec is a function over 0 .. len-1, so indices are the Rust ones.   *)
(*  - A u64 of the hash is the set of generator outputs whose XOR it is:   *)
(*    the k-th value returned by rng.next_u64() is {k}, zero is {} and ^   *)
(*    is the symmetric difference.  The outputs of the generator are       *)
(*    taken to be linearly independent over GF(2); what the model says of  *)
(*    two hashes being different rests on that.                            *)
(*  - A panic ends the program: status becomes "panicked" and nothing      *)
(*    runs afterwards.  The fields written before the panic stay written.  *)
(***************************************************************************)
EXTENDS Integers, Sequences, FiniteSets, TLC

VARIABLES gobans, last, pre, pushes, status, clean

vars == <<gobans, last, pre, pushes, status, clean>>

(***************************************************************************)
(* Bounds of the model.                                                    *)
(***************************************************************************)
\* board sizes 1 .. MaxSize are explored, besides one size above the key table
MaxSize == 3
\* total number of push calls made in a run (push_many and from_array
\* count one per push they make)
MaxPushes == 3
\* longest coordinate sequence handed to push_many
MaxCoords == 2
\* longest array handed to from_array with every content enumerated
MaxArrayLen == 4
\* total number of push calls made in a run that also makes queries
MaxQueryPushes == 2
\* total number of push calls made in a run on two boards
MaxPairPushes == 2

(***************************************************************************)
(* Value types (pieces/stones.rs and pieces/util/coord.rs are not among    *)
(* the sources; they are modelled from the specification).                 *)
(***************************************************************************)
None == "None"
Black == "Black"
White == "White"
Color == {None, Black, White}

\* `color as u8`: the table holds one key per non-empty color, in columns
\* 0 and 1, addressed by `color as u8 - 1`; None is the remaining value.
ColorAsU8(color) ==
    CASE color = None -> 0
      [] color = Black -> 1
      [] color = White -> 2

RowMajor == "RowMajor"
ColumnMajor == "ColumnMajor"
Order == {RowMajor, ColumnMajor}

\* CoordUtil::new_order(n_rows, n_cols, order)
new_order(n_rows, n_cols, order) ==
    [n_rows |-> n_rows, n_cols |-> n_cols, order |-> order]

\* CoordUtil::new(n_rows, n_cols): the default order is row-major
CoordUtil_new(n_rows, n_cols) == new_order(n_rows, n_cols, RowMajor)

\* CoordUtil::to(coord) -> index
to(cu, coord) ==
    IF cu.order = RowMajor
    THEN coord[1] * cu.n_cols + coord[2]
    ELSE coord[2] * cu.n_rows + coord[1]

\* from with the row and the column taken the other way round
from_transposed(cu, index) ==
    IF cu.order = RowMajor
    THEN <<index % cu.n_cols, index \div cu.n_cols>>
    ELSE <<index \div cu.n_rows, index % cu.n_rows>>

\* CoordUtil::from(index) -> coord
from(cu, index) ==
    IF cu.order = RowMajor
    THEN <<index \div cu.n_cols, index % cu.n_cols>>
    ELSE <<index % cu.n_rows, index \div cu.n_rows>>

\* neighbors_coords(coord): the four orthogonal candidates, up, down, left,
\* right; a candidate off the low side of the board has no usize value and
\* is written with -1 here, which coord_valid rejects.
neighbors_coords(coord) ==
    << <<coord[1] - 1, coord[2]>>, <<coord[1] + 1, coord[2]>>,
       <<coord[1], coord[2] - 1>>, <<coord[1], coord[2] + 1>> >>

Stone(coordinates, color) == [coordinates |-> coordinates, color |-> color]

(***************************************************************************)
(* src/pieces/zobrist.rs                                                   *)
(***************************************************************************)
Zero == {}

\* a ^ b on the u64 representation
Xor(a, b) == (a \ b) \cup (b \ a)

\* the (k+1)-th value returned by rng.next_u64()
next_u64(k) == {k + 1}

\* vec![vec![0; 2]; 19 * 19]: the number of rows of the table
TableRows == 19 * 19

\* ZobristTable::new(n)
ZobristTable_new(n) ==
    [hashes |-> [i \in 0 .. TableRows - 1 |->
                    [j \in 0 .. 1 |->
                        IF i < n * n THEN next_u64(2 * i + j) ELSE Zero]],
     n |-> n]

\* the dimension the shared table is built with
ZobristN == 19

\* lazy_static ZOBRIST: the table every Goban refers to
ZOBRIST19 == ZobristTable_new(ZobristN)

\* Index<(Point, Color)> for ZobristTable.  `color as u8 - 1` underflows for
\* None (a panic in a debug build, 255 in a release build, which is then out
\* of the two columns), and a row past the end of hashes is out of bounds:
\* both end in a panic.
zobrist_index(z, x, color) ==
    LET row == x[1] * z.n + x[2]
        col == ColorAsU8(color) - 1
    IN IF row \in DOMAIN z.hashes /\ col \in DOMAIN z.hashes[row]
       THEN [panic |-> FALSE, key |-> z.hashes[row][col]]
       ELSE [panic |-> TRUE, key |-> Zero]

(***************************************************************************)
(* src/pieces/goban.rs                                                     *)
(***************************************************************************)
\* new that leaves a black stone on the first intersection of the grid
new_first_black(size) ==
    [tab |-> [i \in 0 .. size * size - 1 |-> IF i = 0 THEN Black ELSE None],
     size |-> size,
     coord_util |-> CoordUtil_new(size, size),
     b_stones |-> [i \in 0 .. size * size - 1 |-> FALSE],
     w_stones |-> [i \in 0 .. size * size - 1 |-> FALSE],
     hash |-> Zero]

\* Goban::new(size); the zobrist field is the reference to ZOBRIST19
new(size) ==
    [tab |-> [i \in 0 .. size * size - 1 |-> None],
     size |-> size,
     coord_util |-> CoordUtil_new(size, size),
     b_stones |-> [i \in 0 .. size * size - 1 |-> FALSE],
     w_stones |-> [i \in 0 .. size * size - 1 |-> FALSE],
     hash |-> Zero]

\* coord_valid with the column left unchecked
coord_valid_row_only(g, coord) ==
    /\ coord[1] \in Nat /\ coord[2] \in Nat
    /\ coord[1] < g.size

\* Goban::coord_valid; Coord is (usize, usize), so no component is negative
coord_valid(g, coord) ==
    /\ coord[1] \in Nat /\ coord[2] \in Nat
    /\ coord[1] < g.size /\ coord[2] < g.size

\* Index<Coord> for Goban: self[index]
index(g, coord) == g.tab[to(g.coord_util, coord)]

\* IndexMut<Coord> for Goban: self[index] = color
index_mut(g, coord, color) ==
    [g EXCEPT !.tab[to(g.coord_util, coord)] = color]

\* push_bitsets where writing None leaves the black bitset as it is
push_bitsets_none_keeps_black(g, i, color) ==
    CASE color = Black -> [g EXCEPT !.b_stones[i] = TRUE]
      [] color = White -> [g EXCEPT !.w_stones[i] = TRUE]
      [] color = None  -> [g EXCEPT !.w_stones[i] = FALSE]

\* the match of push, lines 89-100: the occupancy bitsets
push_bitsets(g, i, color) ==
    CASE color = Black -> [g EXCEPT !.b_stones[i] = TRUE]
      [] color = White -> [g EXCEPT !.w_stones[i] = TRUE]
      [] color = None  -> [g EXCEPT !.b_stones[i] = FALSE,
                                    !.w_stones[i] = FALSE]

\* the color whose key push XORs into the hash, lines 101-105
push_key_color(g, point, color) ==
    IF color = None THEN index(g, point) ELSE color

\* push that also XORs out the key of the stone it writes over
push_removing_old_key(g, point, color) ==
    IF coord_valid(g, point)
    THEN LET i == to(g.coord_util, point)
         IN IF i \notin DOMAIN g.tab
            THEN [g |-> g, res |-> "Panic"]
            ELSE LET g1 == push_bitsets(g, i, color)
                     k == zobrist_index(ZOBRIST19, point,
                                        push_key_color(g1, point, color))
                     old == IF color # None /\ g.tab[i] # None
                            THEN zobrist_index(ZOBRIST19, point, g.tab[i]).key
                            ELSE Zero
                 IN IF k.panic
                    THEN [g |-> g1, res |-> "Panic"]
                    ELSE [g |-> index_mut([g1 EXCEPT
                                             !.hash = Xor(Xor(@, k.key), old)],
                                          point, color),
                          res |-> "Ok"]
    ELSE [g |-> g, res |-> "Err"]

\* Goban::push: res is "Ok", "Err" (the returned error) or "Panic".  Writing
\* a Vec past its end panics, and so does a failed lookup of the key.
push(g, point, color) ==
    IF coord_valid(g, point)
    THEN LET i == to(g.coord_util, point)
         IN IF i \notin DOMAIN g.tab
            THEN [g |-> g, res |-> "Panic"]
            ELSE LET g1 == push_bitsets(g, i, color)
                     k == zobrist_index(ZOBRIST19, point,
                                        push_key_color(g1, point, color))
                 IN IF k.panic
                    THEN [g |-> g1, res |-> "Panic"]
                    ELSE [g |-> index_mut([g1 EXCEPT !.hash = Xor(@, k.key)],
                                          point, color),
                          res |-> "Ok"]
    ELSE [g |-> g, res |-> "Err"]

\* push_many that drops the result of each push and goes on
RECURSIVE push_many_ignoring_errors(_, _, _)
push_many_ignoring_errors(g, coords, value) ==
    IF coords = << >>
    THEN [g |-> g, panic |-> FALSE]
    ELSE LET r == push(g, Head(coords), value)
         IN IF r.res = "Panic"
            THEN [g |-> r.g, panic |-> TRUE]
            ELSE push_many_ignoring_errors(r.g, Tail(coords), value)

\* Goban::push_many: for_each stops at the first push that does not return
\* Ok, where expect panics (or the push itself has panicked)
RECURSIVE push_many(_, _, _)
push_many(g, coords, value) ==
    IF coords = << >>
    THEN [g |-> g, panic |-> FALSE]
    ELSE LET r == push(g, Head(coords), value)
         IN IF r.res = "Ok"
            THEN push_many(r.g, Tail(coords), value)
            ELSE [g |-> r.g, panic |-> TRUE]

\* ((stones.len() as f32).sqrt()) as usize: the square root rounded down
\* (f32 is exact on the lengths of the model)
sqrt_as_usize(len) ==
    CHOOSE s \in 0 .. len : s * s <= len /\ len < (s + 1) * (s + 1)

\* the for_each of from_array over the entries the filter has kept, each
\* the pair of a coordinate and a color
RECURSIVE from_array_for_each(_, _)
from_array_for_each(g, entries) ==
    IF entries = << >>
    THEN [g |-> g, panic |-> FALSE]
    ELSE LET r == push(g, Head(entries)[1], Head(entries)[2])
         IN IF r.res = "Ok"
            THEN from_array_for_each(r.g, Tail(entries))
            ELSE [g |-> r.g, panic |-> TRUE]

\* Goban::from_array; stones is a function over 0 .. len-1
from_array(stones, order) ==
    LET len == Cardinality(DOMAIN stones)
        size == sqrt_as_usize(len)
        coord_util == new_order(size, size, order)
        kept == SelectSeq([k \in 1 .. len |-> k - 1],
                          LAMBDA k : stones[k] # None)
    IN from_array_for_each(new(size),
           [e \in 1 .. Len(kept) |-> <<from(coord_util, kept[e]), stones[kept[e]]>>])

\* the stones at the coordinates cs, each with the color the grid holds
stones_at(g, cs) == [k \in 1 .. Len(cs) |-> Stone(cs[k], index(g, cs[k]))]

\* get_neighbors that gives each neighbor the color at coord itself
get_neighbors_own_color(g, coord) ==
    LET cs == SelectSeq(neighbors_coords(coord), LAMBDA x : coord_valid(g, x))
        own == IF coord_valid(g, coord) THEN index(g, coord) ELSE None
    IN [k \in 1 .. Len(cs) |-> Stone(cs[k], own)]

\* Goban::get_neighbors
get_neighbors(g, coord) ==
    stones_at(g, SelectSeq(neighbors_coords(coord),
                           LAMBDA x : coord_valid(g, x)))

\* Goban::get_neighbors_stones
get_neighbors_stones(g, coord) ==
    SelectSeq(get_neighbors(g, coord), LAMBDA s : s.color # None)

\* self.tab.iter().enumerate(): the indices of tab in ascending order
enumerate(g) == [k \in 1 .. Cardinality(DOMAIN g.tab) |-> k - 1]

\* Goban::get_stones
get_stones(g) ==
    LET coord_util == CoordUtil_new(g.size, g.size)
        kept == SelectSeq(enumerate(g), LAMBDA i : g.tab[i] # None)
    IN [k \in 1 .. Len(kept) |-> Stone(from(coord_util, kept[k]), g.tab[kept[k]])]

\* get_stones_by_color with the filter of get_stones
get_stones_by_color_not_none(g, color) ==
    LET kept == SelectSeq(enumerate(g), LAMBDA i : g.tab[i] # None)
    IN [k \in 1 .. Len(kept) |-> Stone(from(g.coord_util, kept[k]), g.tab[kept[k]])]

\* Goban::get_stones_by_color
get_stones_by_color(g, color) ==
    LET kept == SelectSeq(enumerate(g), LAMBDA i : g.tab[i] = color)
    IN [k \in 1 .. Len(kept) |-> Stone(from(g.coord_util, kept[k]), g.tab[kept[k]])]

\* get_liberties that keeps every neighbor
get_liberties_all_neighbors(g, point) == get_neighbors(g, point.coordinates)

\* get_liberties that keeps the neighbors whose color is not the stone's own
get_liberties_not_own_color(g, point) ==
    SelectSeq(get_neighbors(g, point.coordinates),
              LAMBDA s : s.color # point.color)

\* Goban::get_liberties
get_liberties(g, point) ==
    SelectSeq(get_neighbors(g, point.coordinates), LAMBDA s : s.color = None)

\* Goban::get_nb_liberties: count() as u8
get_nb_liberties(g, point) == Len(get_liberties(g, point)) % 256

\* has_liberties that asks for any neighbor at all
has_liberties_any_neighbor(g, point) ==
    \E k \in DOMAIN get_neighbors(g, point.coordinates) : TRUE

\* Goban::has_liberties: any(|s| Color::None == s.color)
has_liberties(g, point) ==
    \E k \in DOMAIN get_liberties(g, point) :
        None = get_liberties(g, point)[k].color

\* the symbols of the rendering (constants of pieces/stones.rs)
WHITE_STONE == "WHITE_STONE"
BLACK_STONE == "BLACK_STONE"
EMPTY_STONE == "EMPTY_STONE"

\* the symbol pushed for one intersection, the match of raw_string
stone_char(color) ==
    CASE color = White -> WHITE_STONE
      [] color = Black -> BLACK_STONE
      [] color = None  -> EMPTY_STONE

\* Goban::raw_string: the characters of the buffer, row after row, each row
\* ended by a newline
raw_string(g) ==
    [k \in 1 .. g.size * (g.size + 1) |->
        LET i == (k - 1) \div (g.size + 1)
            j == (k - 1) % (g.size + 1)
        IN IF j = g.size THEN "\n" ELSE stone_char(index(g, <<i, j>>))]

\* Goban::pretty_string: the same loops as raw_string
pretty_string(g) ==
    [k \in 1 .. g.size * (g.size + 1) |->
        LET i == (k - 1) \div (g.size + 1)
            j == (k - 1) % (g.size + 1)
        IN IF j = g.size THEN "\n" ELSE stone_char(index(g, <<i, j>>))]

\* equality that compares the boards field by field
eq_by_value(self, other) == other = self

\* PartialEq for Goban
eq(self, other) == other.hash = self.hash

(***************************************************************************)
(* The program: a caller that owns boards and calls their operations.      *)
(*   gobans  the boards, by identity                                       *)
(*   last    the last call made: its operation, arguments and result       *)
(*   pre     the boards as they were before the last call                  *)
(*   pushes  the number of push calls asked for so far                     *)
(*   status  "running", or "panicked" once a call has ended in a panic     *)
(*   clean   per board: no push has yet written a non-empty color onto an  *)
(*           intersection holding a different non-empty color              *)
(***************************************************************************)
\* the first size past the dimension of the Zobrist table
BigSize == ZobristN + 1

\* the board sizes of the model
Sizes == (1 .. MaxSize) \cup {BigSize}

\* row < size and column < size
InBounds(size, point) ==
    /\ point[1] \in 0 .. size - 1
    /\ point[2] \in 0 .. size - 1

\* coordinates outside the board: the row, the column, and both one past the
\* end
OutCoords(size) == {<<size, 0>>, <<0, size>>, <<size, size>>}

\* the coordinates push is handed: the four intersections of the first two
\* rows and columns and the last corner, as far as the board has them, and
\* the coordinates outside
Coords(size) ==
    {c \in ({0, 1} \X {0, 1}) \cup {<<size - 1, size - 1>>} : InBounds(size, c)}
        \cup OutCoords(size)

\* the coordinates the queries are handed: every intersection of a board up
\* to MaxSize, the first two and the last rows and columns of a larger one,
\* and the coordinates outside
QueryComponents(size) ==
    IF size <= MaxSize THEN 0 .. size - 1 ELSE {0, 1, size - 1}

QueryCoords(size) ==
    (QueryComponents(size) \X QueryComponents(size)) \cup OutCoords(size)

\* the coordinates pushed on when every query is made: the intersections of
\* the first two rows and columns
ReadCoords(size) == {c \in {0, 1} \X {0, 1} : InBounds(size, c)}

\* the coordinates those queries are handed: the same, the last corner and
\* one outside
ReadQueryCoords(size) ==
    ReadCoords(size)
        \cup {c \in {<<size - 1, size - 1>>, <<size, 0>>} : c[1] \in Nat}

\* the stones the liberty queries are handed, of every color
Stones(size) ==
    {Stone(c, color) : c \in ReadQueryCoords(size), color \in Color}

\* the coordinates push_many is handed: two corners and one outside
ManyCoords(size) ==
    {c \in {<<0, 0>>, <<size - 1, size - 1>>, <<size, 0>>} : c[1] \in Nat}

\* the coordinate sequences push_many is handed, none of them empty
CoordSeqs(size) == UNION {[1 .. n -> ManyCoords(size)] : n \in 1 .. MaxCoords}

\* the arrays from_array is handed: every array up to MaxArrayLen, and the
\* arrays of a BigSize board that hold one stone
SmallArrays == UNION {[0 .. len - 1 -> Color] : len \in 0 .. MaxArrayLen}

BigProbes == {0, 1, BigSize, BigSize * (BigSize - 1), BigSize * BigSize - 1}

BigArrays ==
    {[k \in 0 .. BigSize * BigSize - 1 |-> IF k = p THEN c ELSE None] :
        p \in BigProbes, c \in {Black, White}}

NbStones(stones) == Cardinality({k \in DOMAIN stones : stones[k] # None})

\* the color of the grid of g at an in-bounds coordinate, row-major
ColorAt(g, point) == g.tab[point[1] * g.size + point[2]]

\* push(point, color) on g writes a non-empty color over a different one
Overwrites(g, point, color) ==
    /\ InBounds(g.size, point)
    /\ color # None
    /\ ColorAt(g, point) \notin {None, color}

RECURSIVE ManyOverwrites(_, _, _)
ManyOverwrites(g, coords, value) ==
    /\ coords # << >>
    /\ \/ Overwrites(g, Head(coords), value)
       \/ LET r == push(g, Head(coords), value)
          IN r.res = "Ok" /\ ManyOverwrites(r.g, Tail(coords), value)

NoCall == [op |-> "none"]

\* no board is constructed yet
Init ==
    /\ gobans = << >>
    /\ last = NoCall
    /\ pre = gobans
    /\ pushes = 0
    /\ status = "running"
    /\ clean = << >>

Ended(panic) == IF panic THEN "panicked" ELSE "running"

\* gobans[id] = Goban::new(size)
New(id, size) ==
    /\ status = "running"
    /\ id \notin DOMAIN gobans
    /\ gobans' = gobans @@ (id :> new(size))
    /\ last' = [op |-> "new", id |-> id, size |-> size]
    /\ clean' = clean @@ (id :> TRUE)
    /\ pre' = gobans
    /\ UNCHANGED <<pushes, status>>

\* gobans[id] = Goban::from_array(stones, order), with at most max pushes made
\* in the run
FromArray(id, stones, order, max) ==
    /\ status = "running"
    /\ id \notin DOMAIN gobans
    /\ pushes + NbStones(stones) <= max
    /\ LET r == from_array(stones, order)
       IN /\ gobans' = gobans @@ (id :> r.g)
          /\ last' = [op |-> "from_array", id |-> id, stones |-> stones,
                      order |-> order, panic |-> r.panic]
          /\ status' = Ended(r.panic)
    /\ clean' = clean @@ (id :> TRUE)
    /\ pre' = gobans
    /\ pushes' = pushes + NbStones(stones)

\* a push that reaches every board sharing its grid with gobans[id], as it
\* would if a clone copied the reference to the grid and not the grid
Push_through_shared_grid(id, point, color, max) ==
    /\ status = "running"
    /\ id \in DOMAIN gobans
    /\ pushes < max
    /\ LET r == push(gobans[id], point, color)
       IN /\ gobans' = [o \in DOMAIN gobans |->
                           IF gobans[o] = gobans[id] THEN r.g ELSE gobans[o]]
          /\ last' = [op |-> "push", id |-> id, point |-> point,
                      color |-> color, res |-> r.res]
          /\ status' = Ended(r.res = "Panic")
    /\ clean' = [clean EXCEPT ![id] = @ /\ ~Overwrites(gobans[id], point, color)]
    /\ pre' = gobans
    /\ pushes' = pushes + 1

\* gobans[id].push(point, color), with at most max pushes made in the run
Push(id, point, color, max) ==
    /\ status = "running"
    /\ id \in DOMAIN gobans
    /\ pushes < max
    /\ LET r == push(gobans[id], point, color)
       IN /\ gobans' = [gobans EXCEPT ![id] = r.g]
          /\ last' = [op |-> "push", id |-> id, point |-> point,
                      color |-> color, res |-> r.res]
          /\ status' = Ended(r.res = "Panic")
    /\ clean' = [clean EXCEPT ![id] = @ /\ ~Overwrites(gobans[id], point, color)]
    /\ pre' = gobans
    /\ pushes' = pushes + 1

\* gobans[id].push_many(coords, value)
PushMany(id, coords, value, max) ==
    /\ status = "running"
    /\ id \in DOMAIN gobans
    /\ pushes + Len(coords) <= max
    /\ LET r == push_many(gobans[id], coords, value)
       IN /\ gobans' = [gobans EXCEPT ![id] = r.g]
          /\ last' = [op |-> "push_many", id |-> id, coords |-> coords,
                      color |-> value, panic |-> r.panic]
          /\ status' = Ended(r.panic)
    /\ clean' = [clean EXCEPT
                    ![id] = @ /\ ~ManyOverwrites(gobans[id], coords, value)]
    /\ pre' = gobans
    /\ pushes' = pushes + Len(coords)

\* a query that leaves its mark in the hash of the board it reads
Query_marking_hash(id, call) ==
    /\ status = "running"
    /\ id \in DOMAIN gobans
    /\ last' = call
    /\ pre' = gobans
    /\ gobans' = [gobans EXCEPT ![id].hash = Xor(@, next_u64(0))]
    /\ UNCHANGED <<pushes, status, clean>>

\* a call of a query on gobans[id]: the boards stay as they are
Query(id, call) ==
    /\ status = "running"
    /\ id \in DOMAIN gobans
    /\ last' = call
    /\ pre' = gobans
    /\ UNCHANGED <<gobans, pushes, status, clean>>

GetNeighbors(id, coord) ==
    Query(id, [op |-> "get_neighbors", id |-> id, point |-> coord,
               out |-> get_neighbors(gobans[id], coord)])

GetNeighborsStones(id, coord) ==
    Query(id, [op |-> "get_neighbors_stones", id |-> id, point |-> coord,
               out |-> get_neighbors_stones(gobans[id], coord)])

GetStones(id) ==
    Query(id, [op |-> "get_stones", id |-> id,
               out |-> get_stones(gobans[id])])

GetStonesByColor(id, color) ==
    Query(id, [op |-> "get_stones_by_color", id |-> id, color |-> color,
               out |-> get_stones_by_color(gobans[id], color)])

GetLiberties(id, stone) ==
    Query(id, [op |-> "get_liberties", id |-> id, stone |-> stone,
               out |-> get_liberties(gobans[id], stone)])

GetNbLiberties(id, stone) ==
    Query(id, [op |-> "get_nb_liberties", id |-> id, stone |-> stone,
               out |-> get_nb_liberties(gobans[id], stone)])

HasLiberties(id, stone) ==
    Query(id, [op |-> "has_liberties", id |-> id, stone |-> stone,
               out |-> has_liberties(gobans[id], stone)])

RawString(id) ==
    Query(id, [op |-> "raw_string", id |-> id,
               out |-> raw_string(gobans[id])])

PrettyString(id) ==
    Query(id, [op |-> "pretty_string", id |-> id,
               out |-> pretty_string(gobans[id])])

\* gobans[id][coord]: the read of a coordinate; indexing tab past its end
\* panics
IndexRead(id, coord) ==
    /\ status = "running"
    /\ id \in DOMAIN gobans
    /\ LET i == to(gobans[id].coord_util, coord)
           panic == i \notin DOMAIN gobans[id].tab
       IN /\ last' = [op |-> "index", id |-> id, point |-> coord,
                      panic |-> panic,
                      out |-> IF panic THEN None ELSE index(gobans[id], coord)]
          /\ status' = Ended(panic)
    /\ pre' = gobans
    /\ UNCHANGED <<gobans, pushes, clean>>

\* gobans[dst] = gobans[src].clone(): a copy of every field (the zobrist
\* field is a reference, and both refer to the same table)
Clone(src, dst) ==
    /\ status = "running"
    /\ src \in DOMAIN gobans
    /\ dst \notin DOMAIN gobans
    /\ gobans' = gobans @@ (dst :> gobans[src])
    /\ last' = [op |-> "clone", id |-> src, other |-> dst]
    /\ clean' = clean @@ (dst :> clean[src])
    /\ pre' = gobans
    /\ UNCHANGED <<pushes, status>>

\* gobans[id] == gobans[other]
Eq(id, other) ==
    /\ other \in DOMAIN gobans
    /\ Query(id, [op |-> "eq", id |-> id, other |-> other,
                  out |-> eq(gobans[id], gobans[other])])

Arrays == SmallArrays \cup BigArrays

\* the size of the board id, once it is constructed (0 before)
SizeOf(id) == IF id \in DOMAIN gobans THEN gobans[id].size ELSE 0

\* one board, constructed and then changed
Next ==
    \/ \E size \in Sizes : New(1, size)
    \/ \E stones \in Arrays, order \in Order :
           FromArray(1, stones, order, MaxPushes)
    \/ \E point \in Coords(SizeOf(1)), color \in Color :
           Push(1, point, color, MaxPushes)
    \/ \E coords \in CoordSeqs(SizeOf(1)), color \in Color :
           PushMany(1, coords, color, MaxPushes)

Spec == Init /\ [][Next]_vars

\* one board, constructed, changed and queried
NextQuery ==
    \/ \E size \in Sizes : New(1, size)
    \/ \E stones \in Arrays, order \in Order :
           FromArray(1, stones, order, MaxQueryPushes)
    \/ \E point \in Coords(SizeOf(1)), color \in Color :
           Push(1, point, color, MaxQueryPushes)
    \/ \E coord \in QueryCoords(SizeOf(1)) : GetNeighbors(1, coord)
    \/ \E coord \in Coords(SizeOf(1)) : GetNeighborsStones(1, coord)
    \/ GetStones(1)
    \/ \E color \in Color : GetStonesByColor(1, color)

SpecQuery == Init /\ [][NextQuery]_vars

\* one board of a size up to MaxSize, constructed empty, changed, and read
\* with every query there is
NextRead ==
    \/ \E size \in 1 .. MaxSize : New(1, size)
    \/ \E point \in ReadCoords(SizeOf(1)), color \in Color :
           Push(1, point, color, MaxQueryPushes)
    \/ \E coord \in ReadQueryCoords(SizeOf(1)) : GetNeighbors(1, coord)
    \/ \E coord \in ReadQueryCoords(SizeOf(1)) : GetNeighborsStones(1, coord)
    \/ GetStones(1)
    \/ \E color \in Color : GetStonesByColor(1, color)
    \/ \E stone \in Stones(SizeOf(1)) : GetLiberties(1, stone)
    \/ \E stone \in Stones(SizeOf(1)) : GetNbLiberties(1, stone)
    \/ \E stone \in Stones(SizeOf(1)) : HasLiberties(1, stone)
    \/ \E coord \in ReadQueryCoords(SizeOf(1)) : IndexRead(1, coord)
    \/ RawString(1)
    \/ PrettyString(1)
    \/ Eq(1, 1)

SpecRead == Init /\ [][NextRead]_vars

\* the two intersections of the scenario on the 5x5 board
ExampleCoords == {<<2, 2>>, <<2, 3>>}

ExampleStones == {Stone(c, color) : c \in ExampleCoords, color \in {Black, White}}

\* the 5x5 board of the scenario: stones pushed on its two intersections,
\* and the queries of the scenario
NextExample ==
    \/ New(1, 5)
    \/ \E point \in ExampleCoords, color \in Color :
           Push(1, point, color, MaxQueryPushes)
    \/ \E color \in Color : GetStonesByColor(1, color)
    \/ \E stone \in ExampleStones : GetLiberties(1, stone)
    \/ \E stone \in ExampleStones : HasLiberties(1, stone)

SpecExample == Init /\ [][NextExample]_vars

\* the coordinates pushed on when there are two boards: two corners
PairCoords(size) ==
    {c \in {<<0, 0>>, <<size - 1, size - 1>>} : InBounds(size, c)}

\* two boards, each constructed or cloned, changed and compared
NextPair ==
    \/ \E id \in {1, 2}, size \in Sizes : New(id, size)
    \/ Clone(1, 2)
    \/ \E id \in {1, 2} :
           \E point \in PairCoords(SizeOf(id)), color \in Color :
               Push(id, point, color, MaxPairPushes)
    \/ \E id \in {1, 2}, other \in {1, 2} : Eq(id, other)

SpecPair == Init /\ [][NextPair]_vars

(***************************************************************************)
(* The claims.                                                             *)
(***************************************************************************)
\* the key of the table for the coordinate of index i and the color tab[i]
KeyAt(g, i) ==
    zobrist_index(ZOBRIST19, <<i \div g.size, i % g.size>>, g.tab[i]).key

Occupied(g) == {i \in DOMAIN g.tab : g.tab[i] # None}

\* the hash recomputed from scratch: the XOR of the keys of the occupied
\* intersections
FromScratch(g) ==
    {d \in UNION {KeyAt(g, i) : i \in Occupied(g)} :
        Cardinality({i \in Occupied(g) : d \in KeyAt(g, i)}) % 2 = 1}

\* the bitsets of g agree with its grid
BitsetsAgree(g) ==
    \A i \in DOMAIN g.tab :
        /\ g.b_stones[i] <=> g.tab[i] = Black
        /\ g.w_stones[i] <=> g.tab[i] = White
        /\ (~g.b_stones[i] /\ ~g.w_stones[i]) <=> g.tab[i] = None

\* C1: after every successful push on a board on which no push has written a
\* non-empty color over a different non-empty color, the stored hash is the
\* hash recomputed from scratch.  (Every board of Spec is reached from
\* new(size) by push calls: from_array and push_many only call push.)
C1_HashIsFromScratch ==
    (last.op = "push" /\ last.res = "Ok" /\ clean[last.id])
        => gobans[last.id].hash = FromScratch(gobans[last.id])

\* C2: after any sequence of in-bounds pushes that have returned, the bitsets
\* of every board agree with its grid.
C2_BitsetsAgree ==
    status = "running" => \A id \in DOMAIN gobans : BitsetsAgree(gobans[id])

\* C3: a push with row >= size or column >= size returns the error, without a
\* panic, and leaves every field of the board as it was.
C3_OutOfBoundsRejected ==
    (last.op = "push" /\ ~InBounds(pre[last.id].size, last.point))
        => /\ last.res = "Err"
           /\ status = "running"
           /\ gobans = pre

\* C3 witness: a push outside a board that holds a stone has been rejected.
C3_Witness ==
    /\ last.op = "push"
    /\ last.point[1] >= pre[last.id].size
    /\ last.color = White
    /\ last.res = "Err"
    /\ Occupied(gobans[last.id]) # {}

\* the step is gobans[id].push(point, None) right after a successful
\* push(point, Black) on the same board
RoundTripStep ==
    /\ last.op = "push" /\ last.color = Black /\ last.res = "Ok"
    /\ last'.op = "push" /\ last'.color = None
    /\ last'.id = last.id /\ last'.point = last.point
    /\ pushes' = pushes + 1

C5_InBoundsPushSucceeds ==
    (last.op = "push" /\ InBounds(pre[last.id].size, last.point))
        => /\ last.res = "Ok"
           /\ (last.color = None /\ ColorAt(pre[last.id], last.point) = None)
                 => gobans[last.id] = pre[last.id]

IsSquare(len) == \E n \in 0 .. len : n * n = len

\* C6: from_array on an array of length n*n returns a board of size n whose
\* grid holds stones[k] at the coordinate the mapper of the order assigns to
\* k, whose hash is the hash from scratch and whose bitsets agree with the
\* grid.
C6_FromArrayBuildsBoard ==
    (last.op = "from_array" /\ IsSquare(Cardinality(DOMAIN last.stones)))
        => LET g == gobans[last.id]
               n == g.size
           IN /\ status = "running"
              /\ n * n = Cardinality(DOMAIN last.stones)
              /\ \A k \in DOMAIN last.stones :
                    LET c == IF last.order = RowMajor
                             THEN <<k \div n, k % n>>
                             ELSE <<k % n, k \div n>>
                    IN ColorAt(g, c) = last.stones[k]
              /\ g.hash = FromScratch(g)
              /\ BitsetsAgree(g)

\* the pushes of coords made one by one, from the last one back: stopped is
\* true once a push has not returned Ok
RECURSIVE OneByOne(_, _, _)
OneByOne(g, coords, value) ==
    IF coords = << >>
    THEN [g |-> g, stopped |-> FALSE]
    ELSE LET before == OneByOne(g, SubSeq(coords, 1, Len(coords) - 1), value)
             r == push(before.g, coords[Len(coords)], value)
         IN IF before.stopped THEN before
            ELSE [g |-> r.g, stopped |-> r.res # "Ok"]

\* C8: push_many pushes the coordinates in order.  When all are in bounds the
\* outcome is that of pushing them one by one; when one is out of bounds the
\* call panics and the board is as the pushes before the first such
\* coordinate left it.
C8_PushManyInOrder ==
    last.op = "push_many"
        => LET size == pre[last.id].size
               out == {k \in DOMAIN last.coords : ~InBounds(size, last.coords[k])}
           IN IF out = {}
              THEN LET r == OneByOne(pre[last.id], last.coords, last.color)
                   IN /\ gobans[last.id] = r.g
                      /\ (status = "panicked") = r.stopped
              ELSE LET first == CHOOSE k \in out : \A j \in out : k <= j
                       r == OneByOne(pre[last.id],
                                     SubSeq(last.coords, 1, first - 1), last.color)
                   IN /\ gobans[last.id] = r.g
                      /\ status = "panicked"
                      /\ last.panic

\* C8 witness: push_many has placed stones on two different intersections.
C8_Witness ==
    /\ last.op = "push_many" /\ status = "running"
    /\ Len(last.coords) = 2 /\ last.coords[1] # last.coords[2]
    /\ last.color = Black
    /\ \A k \in 1 .. 2 : ColorAt(gobans[last.id], last.coords[k]) = Black
    /\ \A k \in 1 .. 2 : ColorAt(pre[last.id], last.coords[k]) # Black

\* C7: two boards compare equal exactly when their hashes are equal,
\* whatever their sizes, grids and bitsets; two freshly constructed boards
\* compare equal.
C7_EqIsHashEquality ==
    last.op = "eq"
        => LET a == gobans[last.id]
               b == gobans[last.other]
           IN /\ last.out <=> a.hash = b.hash
              /\ (a = new(a.size) /\ b = new(b.size)) => last.out

\* C7 witness: two boards of different sizes, one of them holding a stone,
\* have compared equal.
C7_Witness ==
    /\ last.op = "eq" /\ last.out
    /\ gobans[last.id].size # gobans[last.other].size
    /\ Occupied(gobans[last.id]) # {}

Abs(x) == IF x < 0 THEN -x ELSE x

\* C9: on a board of size >= 3, get_neighbors of an in-bounds coordinate
\* yields 2 stones at a corner, 3 on an edge and 4 inside, each in bounds,
\* orthogonally adjacent to the coordinate and with the color of the grid.
C9_NeighborCounts ==
    (/\ last.op = "get_neighbors"
     /\ gobans[last.id].size >= 3
     /\ InBounds(gobans[last.id].size, last.point))
        => LET g == gobans[last.id]
               c == last.point
               out == last.out
               ends == {0, g.size - 1}
               n == IF c[1] \in ends /\ c[2] \in ends THEN 2
                    ELSE IF c[1] \in ends \/ c[2] \in ends THEN 3
                    ELSE 4
           IN /\ Len(out) = n
              /\ \A k \in 1 .. Len(out) :
                    LET x == out[k].coordinates
                    IN /\ InBounds(g.size, x)
                       /\ Abs(x[1] - c[1]) + Abs(x[2] - c[2]) = 1
                       /\ out[k].color = ColorAt(g, x)
                       /\ \A j \in 1 .. Len(out) :
                             j # k => out[j].coordinates # x

\* C9 witness: get_neighbors of an interior intersection has yielded four
\* stones, a black, a white and an empty one among them.
C9_Witness ==
    /\ last.op = "get_neighbors"
    /\ Len(last.out) = 4
    /\ {last.out[k].color : k \in 1 .. 4} = Color

\* out lists exactly the intersections whose index is in S, each once, in
\* ascending order of index and with the color of the grid
Lists(g, out, S) ==
    LET idx(k) == out[k].coordinates[1] * g.size + out[k].coordinates[2]
    IN /\ Len(out) = Cardinality(S)
       /\ \A k \in 1 .. Len(out) :
             /\ InBounds(g.size, out[k].coordinates)
             /\ idx(k) \in S
             /\ out[k].color = g.tab[idx(k)]
             /\ k < Len(out) => idx(k) < idx(k + 1)

\* C10: get_stones_by_color(color) lists the intersections of that color and
\* get_stones() the non-empty ones, each once and in ascending index order,
\* so that the three colors partition the intersections (the three lists
\* have size*size entries together).
C10_StonesInIndexOrder ==
    /\ last.op = "get_stones_by_color"
          => Lists(gobans[last.id], last.out,
                   {i \in DOMAIN gobans[last.id].tab :
                       gobans[last.id].tab[i] = last.color})
    /\ last.op = "get_stones"
          => Lists(gobans[last.id], last.out, Occupied(gobans[last.id]))
    /\ last.op = "get_stones_by_color"
          => LET g == gobans[last.id]
             IN Len(get_stones_by_color(g, Black))
                   + Len(get_stones_by_color(g, White))
                   + Len(get_stones_by_color(g, None)) = g.size * g.size

\* C10 witness: get_stones_by_color(Black) has listed the black stone of a
\* board that also holds a white one.
C10_Witness ==
    /\ last.op = "get_stones_by_color" /\ last.color = Black
    /\ Len(last.out) = 1
    /\ \E i \in DOMAIN gobans[last.id].tab : gobans[last.id].tab[i] = White

\* the in-bounds intersections orthogonally adjacent to c
OrthNeighbors(size, c) ==
    {x \in {<<c[1] - 1, c[2]>>, <<c[1] + 1, c[2]>>,
            <<c[1], c[2] - 1>>, <<c[1], c[2] + 1>>} : InBounds(size, x)}

\* the empty intersections among them
EmptyNeighbors(g, c) == {x \in OrthNeighbors(g.size, c) : ColorAt(g, x) = None}

\* C11: for a stone at an in-bounds coordinate, get_liberties yields exactly
\* the in-bounds orthogonal neighbors whose grid color is None, each once and
\* as an empty stone, whatever the color of the stone handed in, and
\* get_nb_liberties is their number, between 0 and 4.
C11_LibertiesAreEmptyNeighbors ==
    /\ (/\ last.op = "get_liberties"
        /\ InBounds(gobans[last.id].size, last.stone.coordinates))
          => LET S == EmptyNeighbors(gobans[last.id], last.stone.coordinates)
             IN /\ {last.out[k].coordinates : k \in DOMAIN last.out} = S
                /\ Len(last.out) = Cardinality(S)
                /\ \A k \in DOMAIN last.out : last.out[k].color = None
    /\ (/\ last.op = "get_nb_liberties"
        /\ InBounds(gobans[last.id].size, last.stone.coordinates))
          => /\ last.out = Cardinality(EmptyNeighbors(gobans[last.id],
                                                      last.stone.coordinates))
             /\ last.out \in 0 .. 4

\* C11 witness: get_liberties of a black stone next to a white one has
\* yielded its one empty neighbor.
C11_Witness ==
    /\ last.op = "get_liberties"
    /\ last.stone.color = Black
    /\ InBounds(gobans[last.id].size, last.stone.coordinates)
    /\ ColorAt(gobans[last.id], last.stone.coordinates) = Black
    /\ Len(last.out) = 1
    /\ \E x \in OrthNeighbors(gobans[last.id].size, last.stone.coordinates) :
           ColorAt(gobans[last.id], x) = White

\* C12: has_liberties(stone) is true exactly when get_nb_liberties(stone) is
\* greater than 0, for any stone.
C12_HasLibertiesIffCount ==
    last.op = "has_liberties"
        => (last.out <=> get_nb_liberties(gobans[last.id], last.stone) > 0)

\* C12 witness: has_liberties has answered false for a stone whose two
\* neighbors are both occupied.
C12_Witness ==
    /\ last.op = "has_liberties" /\ ~last.out
    /\ InBounds(gobans[last.id].size, last.stone.coordinates)
    /\ Cardinality(OrthNeighbors(gobans[last.id].size,
                                 last.stone.coordinates)) = 2

QueryOps ==
    {"get_neighbors", "get_neighbors_stones", "get_stones",
     "get_stones_by_color", "get_liberties", "get_nb_liberties",
     "has_liberties", "index", "raw_string", "pretty_string", "eq"}

\* the result recorded in call is the one the query gives on the board g
\* (and, for the equality, the board other)
ResultOn(call, g, other) ==
    CASE call.op = "get_neighbors" -> call.out = get_neighbors(g, call.point)
      [] call.op = "get_neighbors_stones" ->
             call.out = get_neighbors_stones(g, call.point)
      [] call.op = "get_stones" -> call.out = get_stones(g)
      [] call.op = "get_stones_by_color" ->
             call.out = get_stones_by_color(g, call.color)
      [] call.op = "get_liberties" -> call.out = get_liberties(g, call.stone)
      [] call.op = "get_nb_liberties" ->
             call.out = get_nb_liberties(g, call.stone)
      [] call.op = "has_liberties" -> call.out = has_liberties(g, call.stone)
      [] call.op = "index" ->
             call.panic \/ call.out = g.tab[to(g.coord_util, call.point)]
      [] call.op = "raw_string" -> call.out = raw_string(g)
      [] call.op = "pretty_string" -> call.out = pretty_string(g)
      [] call.op = "eq" -> call.out = eq(g, other)

\* C13: a query changes no field of any board, and its result is the one the
\* query gives on the board as it is after the call, whatever queries were
\* made before.
C13_QueriesAreReadOnly ==
    [][last'.op \in QueryOps
          => /\ gobans' = gobans
             /\ ResultOn(last', gobans'[last'.id],
                         IF last'.op = "eq" THEN gobans'[last'.other]
                         ELSE gobans'[last'.id])]_vars

\* C13 witness: a rendering has been made of a board that holds a black
\* stone, and every board is as it was before the call.
C13_Witness ==
    /\ last.op = "raw_string"
    /\ \E k \in DOMAIN last.out : last.out[k] = BLACK_STONE
    /\ pre = gobans
    /\ gobans[last.id].hash # Zero

\* C14: new(size) has the size asked for, hash 0, every cell of the grid
\* None, both bitsets all false and no stone in get_stones(), and for every
\* in-bounds coordinate the liberty count of a stone there, of any color, is
\* the number of neighbors get_neighbors yields for it.
C14_NewIsEmpty ==
    last.op = "new"
        => LET g == gobans[last.id]
               cells == 0 .. last.size * last.size - 1
           IN /\ g.size = last.size
              /\ g.hash = Zero
              /\ DOMAIN g.tab = cells
              /\ DOMAIN g.b_stones = cells /\ DOMAIN g.w_stones = cells
              /\ \A i \in cells :
                    g.tab[i] = None /\ ~g.b_stones[i] /\ ~g.w_stones[i]
              /\ get_stones(g) = << >>
              /\ \A r \in 0 .. g.size - 1, c \in 0 .. g.size - 1, color \in Color :
                    get_nb_liberties(g, Stone(<<r, c>>, color))
                        = Len(get_neighbors(g, <<r, c>>))

\* C14 witness: a board with corners, edges and interior intersections has
\* been constructed by new.
C14_Witness ==
    /\ last.op = "new"
    /\ gobans[last.id].size >= 3
    /\ Len(get_neighbors(gobans[last.id], <<1, 1>>)) = 4
    /\ get_nb_liberties(gobans[last.id], Stone(<<1, 1>>, Black)) = 4

\* the coordinates of the stones of a listing
CoordsOf(out) == {out[k].coordinates : k \in DOMAIN out}

\* the board is the 5x5 board after two pushes, holding Black at (2,2), White
\* at (2,3) and nothing else: the two pushes were push((2,2), Black) and
\* push((2,3), White)
ScenarioBoard ==
    /\ 1 \in DOMAIN gobans
    /\ gobans[1].size = 5
    /\ pushes = 2
    /\ status = "running"
    /\ \A r \in 0 .. 4, c \in 0 .. 4 :
          ColorAt(gobans[1], <<r, c>>) =
              IF <<r, c>> = <<2, 2>> THEN Black
              ELSE IF <<r, c>> = <<2, 3>> THEN White
              ELSE None

\* C15: on new(5) after push((2,2), Black) and push((2,3), White),
\* get_stones_by_color(Black) yields exactly (2,2), get_stones_by_color(White)
\* exactly (2,3), get_liberties of the black stone at (2,2) exactly (1,2),
\* (3,2) and (2,1), and has_liberties is true for both stones.
C15_Scenario ==
    ScenarioBoard
        => /\ (last.op = "get_stones_by_color" /\ last.color = Black)
                 => /\ CoordsOf(last.out) = {<<2, 2>>}
                    /\ Len(last.out) = 1
           /\ (last.op = "get_stones_by_color" /\ last.color = White)
                 => /\ CoordsOf(last.out) = {<<2, 3>>}
                    /\ Len(last.out) = 1
           /\ (last.op = "get_liberties" /\ last.stone = Stone(<<2, 2>>, Black))
                 => /\ CoordsOf(last.out) = {<<1, 2>>, <<3, 2>>, <<2, 1>>}
                    /\ Len(last.out) = 3
           /\ (/\ last.op = "has_liberties"
               /\ last.stone \in {Stone(<<2, 2>>, Black), Stone(<<2, 3>>, White)})
                 => last.out

\* C15 witness: get_liberties of the black stone at (2,2) has been asked on
\* the board of the scenario.
C15_Witness ==
    /\ ScenarioBoard
    /\ last.op = "get_liberties"
    /\ last.stone = Stone(<<2, 2>>, Black)
    /\ Len(last.out) = 3

\* the stones of a listing
StonesOf(out) == {out[k] : k \in DOMAIN out}

\* C16: the mapper of every board is a bijection between its size*size valid
\* coordinates and the indices of its grid, with to((row, column)) =
\* row*size + column, from(to(c)) = c and to(from(i)) = i; and a stone that
\* push has just placed is listed by get_stones and get_stones_by_color at
\* the coordinate it was pushed at.
C16_MapperIsBijection ==
    /\ \A id \in DOMAIN gobans :
          LET g == gobans[id]
              cu == g.coord_util
          IN /\ \A r \in 0 .. g.size - 1, c \in 0 .. g.size - 1 :
                    /\ to(cu, <<r, c>>) = r * g.size + c
                    /\ to(cu, <<r, c>>) \in DOMAIN g.tab
                    /\ from(cu, to(cu, <<r, c>>)) = <<r, c>>
             /\ \A i \in DOMAIN g.tab :
                    /\ InBounds(g.size, from(cu, i))
                    /\ to(cu, from(cu, i)) = i
    /\ (last.op = "push" /\ last.res = "Ok" /\ last.color # None)
          => LET g == gobans[last.id]
                 stone == Stone(last.point, last.color)
             IN /\ stone \in StonesOf(get_stones(g))
                /\ stone \in StonesOf(get_stones_by_color(g, last.color))

\* C16 witness: a stone pushed off the diagonal of a board is listed by
\* get_stones at its coordinate.
C16_Witness ==
    /\ last.op = "push" /\ last.res = "Ok" /\ last.color = White
    /\ last.point[1] # last.point[2]
    /\ Stone(last.point, White) \in StonesOf(get_stones(gobans[last.id]))

\* C17: a clone has every field of its original and compares equal to it; a
\* push on one board leaves every other board, its clone or its original
\* among them, as it was; and two boards with the same fields compare equal.
C17_CloneIsIndependent ==
    [][/\ last'.op = "clone"
             => /\ gobans'[last'.other] = gobans[last'.id]
                /\ gobans'[last'.id] = gobans[last'.id]
                /\ eq(gobans'[last'.id], gobans'[last'.other])
                /\ eq(gobans'[last'.other], gobans'[last'.id])
       /\ last'.op = "push"
             => \A o \in DOMAIN gobans \ {last'.id} : gobans'[o] = gobans[o]
       /\ (last'.op = "eq" /\ gobans'[last'.id] = gobans'[last'.other])
             => last'.out]_vars

\* C17 witness: a board holding a stone has been cloned and a push on the
\* clone has changed the clone, while the original is as it was.
C17_Witness ==
    /\ last.op = "push" /\ last.id = 2 /\ last.res = "Ok"
    /\ DOMAIN gobans = {1, 2}
    /\ pre[2] = pre[1]
    /\ Occupied(pre[1]) # {}
    /\ gobans[1] = pre[1]
    /\ gobans[2] # pre[2]
    /\ ~eq(gobans[1], gobans[2])

\* the key of the table for (point, color)
KeyOf(point, color) == zobrist_index(ZOBRIST19, point, color).key

\* the last call was a successful push of a non-empty color onto an
\* intersection holding a different non-empty color
OverwriteDone ==
    /\ last.op = "push" /\ last.res = "Ok"
    /\ Overwrites(pre[last.id], last.point, last.color)

\* C18 as stated: after a push of X over a different non-empty color Y, the
\* hash is the hash before XOR the key of (coord, X), the cell holds X, and
\* the stored hash differs from the hash from scratch by exactly the key of
\* (coord, Y), whatever the board was before.
C18_OverwriteLeavesOldKey ==
    OverwriteDone
        => LET g == gobans[last.id]
               before == pre[last.id]
               Y == ColorAt(before, last.point)
           IN /\ g.hash = Xor(before.hash, KeyOf(last.point, last.color))
              /\ ColorAt(g, last.point) = last.color
              /\ Xor(g.hash, FromScratch(g)) = KeyOf(last.point, Y)

\* C18 amended: after a push of X over a different non-empty color Y, the
\* hash is the hash before XOR the key of (coord, X) and the cell holds X;
\* when the hash before was the hash from scratch of the grid before, the
\* stored hash differs from the hash from scratch by exactly the key of
\* (coord, Y).
C18_OverwriteLeavesOldKeyWhenInSync ==
    OverwriteDone
        => LET g == gobans[last.id]
               before == pre[last.id]
               Y == ColorAt(before, last.point)
           IN /\ g.hash = Xor(before.hash, KeyOf(last.point, last.color))
              /\ ColorAt(g, last.point) = last.color
              /\ before.hash = FromScratch(before)
                    => Xor(g.hash, FromScratch(g)) = KeyOf(last.point, Y)

\* C18 witness: White has been pushed over Black on a board whose hash was
\* the hash from scratch, and the hash is no longer the hash from scratch.
C18_Witness ==
    /\ OverwriteDone
    /\ last.color = White
    /\ pre[last.id].hash = FromScratch(pre[last.id])
    /\ gobans[last.id].hash # FromScratch(gobans[last.id])
    /\ Xor(gobans[last.id].hash, FromScratch(gobans[last.id]))
          = KeyOf(last.point, Black)

\* the row of the table that the lookup of the key of point addresses
RowOf(point) == point[1] * ZobristN + point[2]

\* C19: on a board of every size, the lookup that push makes for an
\* in-bounds coordinate and a non-empty color addresses a row the table has,
\* so that the push returns, and the coordinates of the board address
\* pairwise distinct rows.
C19_LookupIsTotalAndDistinct ==
    /\ (/\ last.op = "push"
        /\ InBounds(pre[last.id].size, last.point)
        /\ last.color # None)
          => /\ RowOf(last.point) \in 0 .. TableRows - 1
             /\ last.res = "Ok"
    /\ \A id \in DOMAIN gobans :
          LET cells == (0 .. gobans[id].size - 1) \X (0 .. gobans[id].size - 1)
          IN Cardinality({RowOf(c) : c \in cells}) = Cardinality(cells)

\* the coordinate of the intersection of index i of the grid of g, row-major
CoordOfIndex(g, i) == <<i \div g.size, i % g.size>>

\* the last call was the second of two pushes of stones onto an empty board,
\* at two different in-bounds intersections
SecondOfTwoStones ==
    /\ last.op = "push" /\ pushes = 2
    /\ last.color # None
    /\ InBounds(pre[last.id].size, last.point)
    /\ Cardinality(Occupied(pre[last.id])) = 1
    /\ \A i \in Occupied(pre[last.id]) :
          /\ CoordOfIndex(pre[last.id], i) # last.point
          /\ pre[last.id] = push(new(pre[last.id].size),
                                 CoordOfIndex(pre[last.id], i),
                                 pre[last.id].tab[i]).g

\* the board that the same two pushes give in the other order
OtherOrder ==
    LET before == pre[last.id]
        i == CHOOSE i \in Occupied(before) : TRUE
        first == push(new(before.size), last.point, last.color)
    IN IF first.res = "Ok"
       THEN push(first.g, CoordOfIndex(before, i), before.tab[i])
       ELSE first

\* C20: two stones pushed onto an empty board at different in-bounds
\* intersections give the same hash, grid and bitsets in either order; and a
\* board compares equal to the board that from_array builds from its grid,
\* which holds the same stones, however the board itself was built.
C20_HashIsOrderIndependent ==
    /\ SecondOfTwoStones
          => /\ last.res = "Ok"
             /\ OtherOrder.res = "Ok"
             /\ OtherOrder.g = gobans[last.id]
    /\ status = "running"
          => \A id \in DOMAIN gobans :
                LET built == from_array(gobans[id].tab, RowMajor)
                IN /\ ~built.panic
                   /\ built.g.tab = gobans[id].tab
                   /\ eq(gobans[id], built.g)

====
